---------------------------- MODULE Spec2Model ----------------------------
(***************************************************************************)
(* Model of app.py: the Qwen chat adapter (QwenChat._generate), the prompt *)
(* composer (_get_general_info, _get_mode_description, create_prompt), the *)
(* orchestrator (generate_project) and the Streamlit script that drives    *)
(* them.                                                                   *)
(*                                                                         *)
(* A Python str is a finite sequence of text pieces: the empty str is      *)
(* << >>, concatenation and f-string interpolation are \o, startswith is a *)
(* prefix test and `in` is a contiguous-subsequence test.  Theme strings   *)
(* are written character by character ("u7968" is the character U+7968),   *)
(* because the keyword dispatch looks inside them; each long literal of    *)
(* the program is one piece, written in ASCII with the literal beside it.  *)
(***************************************************************************)
EXTENDS Integers, Sequences, FiniteSets, TLC

VARIABLES
    api_key,          \* sidebar text_input "输入API密钥"; the credential passed on
    modules,          \* sidebar multiselect, a list in selection order
    theme,            \* sidebar text_input "项目主题"
    function,         \* sidebar text_area "项目功能"
    pc,               \* "idle", or "calling" while Generation.call is outstanding
    prompt,           \* the prompt handed to generate_project
    request,          \* the request Generation.call was given
    calls,            \* Generation.call invocations of the current run
    response,         \* what Generation.call produced
    outcome,          \* how generate_project ended: "none", "validation", "failed", "success"
    project_content,  \* the str generate_project returned
    ui,               \* what the script rendered
    mode              \* the last result of _get_mode_description

vars == <<api_key, modules, theme, function, pc, prompt, request, calls,
          response, outcome, project_content, ui, mode>>

-----------------------------------------------------------------------------
(* Bounds *)

\* longest text (in pieces) the backend puts in a text or content field
MaxTextLen == 1
\* longest theme (in characters) typed into the theme box
MaxThemeLen == 3

-----------------------------------------------------------------------------
(* Python values *)

Range(s) == {s[i] : i \in 1..Len(s)}

\* s.startswith(p)
StartsWith(s, p) == Len(p) <= Len(s) /\ SubSeq(s, 1, Len(p)) = p

\* kw in s, for two strs
Contains(s, kw) ==
    \E i \in 0..(Len(s) - Len(kw)) : SubSeq(s, i + 1, i + Len(kw)) = kw

\* all sequences over S of length at most n
RECURSIVE SeqsUpTo(_, _)
SeqsUpTo(S, n) ==
    IF n = 0 THEN {<< >>}
    ELSE LET shorter == SeqsUpTo(S, n - 1)
         IN  shorter \cup {Append(s, x) : s \in {t \in shorter : Len(t) = n - 1}, x \in S}

\* "、".join(xs), for a list of one-piece strs
RECURSIVE Join(_)
Join(xs) ==
    IF xs = << >> THEN << >>
    ELSE IF Len(xs) = 1 THEN <<xs[1]>>
    ELSE <<xs[1], ", ">> \o Join(Tail(xs))

\* None, a missing attribute or key, a str, and any value of another type
None == [tag |-> "none"]
Absent == [tag |-> "absent"]
Str(s) == [tag |-> "str", s |-> s]
Other == [tag |-> "other"]

\* bool(v): None and "" are false
Truthy(v) == v.tag = "other" \/ (v.tag = "str" /\ v.s # << >>)

-----------------------------------------------------------------------------
(* Literals of the program *)

\* "错误:" and "生成失败:", the prefixes the button handler tests
ERR_PREFIX == <<"cuowu:">>
FAIL_PREFIX == <<"shengcheng shibai:">>
\* "错误: 请先输入API密钥"
ERR_NO_KEY == ERR_PREFIX \o <<" qing xian shuru API miyao">>
\* "请先输入API密钥"
MSG_NO_KEY == <<"qing xian shuru API miyao">>
\* "请至少选择一个项目模块"
MSG_NO_MODULE == <<"qing zhishao xuanze yige xiangmu mokuai">>
\* "调用 Qwen 模型时发生错误: "
ENVELOPE == <<"diaoyong Qwen moxing shi fasheng cuowu: ">>
\* "API 调用返回 None。请检查网络连接和API密钥。"
DIAG_NONE == <<"API diaoyong fanhui None. qing jiancha wangluo lianjie he API miyao.">>
\* "API 响应缺少 'output' 字段。"
DIAG_NO_OUTPUT == <<"API xiangying queshao 'output' ziduan.">>
\* "无法从 API 响应中提取生成的文本内容。"
DIAG_NO_TEXT == <<"wufa cong API xiangying zhong tiqu shengcheng de wenben neirong.">>
\* f"API Error ({code}): {message}"
DiagStatus(code, message) == <<"API Error (", ToString(code), "): ">> \o message
\* the getattr default 'Unknown error'
UNKNOWN_ERROR == <<"Unknown error">>
\* the system persona of generate_project
PERSONA == <<"ni shi yi ming jingyan fengfu de qianrushi xitong gongchengshi">>
MODEL_NAME == "qwen-plus"
TEMPERATURE == "0.3"
HTTP_OK == 200

-----------------------------------------------------------------------------
(* The backend: what Generation.call can produce *)

\* pieces of generated text; the backend is free to begin a text with the
\* very characters of an error prefix
TextPieces == {"cuowu:", "shengcheng shibai:", "fangan"}
Texts == SeqsUpTo(TextPieces, MaxTextLen)

\* choices[0]["message"]: missing, not a dict, or a dict with or without content
Messages ==
    {Absent, Other}
        \cup {[tag |-> "dict", content |-> c] : c \in {Absent, None} \cup {Str(t) : t \in Texts}}
\* choices[0]: not a dict, or a dict
FirstChoices == {Other} \cup {[tag |-> "dict", message |-> m] : m \in Messages}
\* output["choices"]: missing, None, an empty list, or a list
ChoiceFields ==
    {Absent, None, [tag |-> "list", items |-> << >>]}
        \cup {[tag |-> "list", items |-> <<fc>>] : fc \in FirstChoices}
\* output.text: missing, None or a str
TextFields == {Absent, None} \cup {Str(t) : t \in Texts}

\* response.output: a dict (DashScope's attribute-access dict) or a plain object
Outputs ==
    [isDict : {TRUE}, text : TextFields, choices : ChoiceFields]
        \cup [isDict : {FALSE}, text : TextFields, choices : {Absent}]

BackendMessages == {Absent, Str(<<"Invalid API-key provided.">>)}
ErrorCodes == {400, 401}

Resp(code, message, output) ==
    [tag |-> "resp", status_code |-> code, message |-> message, output |-> output]

\* Generation.call raises, returns None, or returns a response object
Responses ==
    {[tag |-> "raise", msg |-> <<"ConnectionError">>], None}
        \cup {Resp(c, m, None) : c \in ErrorCodes, m \in BackendMessages}
        \cup {Resp(HTTP_OK, Absent, o) : o \in {None} \cup Outputs}

Unset == [tag |-> "unset"]

-----------------------------------------------------------------------------
(* QwenChat._generate *)

\* lines 18-27: LangChain messages to DashScope messages
Role(type) ==
    CASE type = "system" -> "system"
      [] type = "human" -> "user"
      [] type = "ai" -> "assistant"
      [] OTHER -> "user"
dashscope_messages(messages) ==
    [i \in 1..Len(messages) |-> [role |-> Role(messages[i].type), content |-> messages[i].content]]

\* lines 31-36
GenerationCall(messages, key) ==
    [model |-> MODEL_NAME, messages |-> dashscope_messages(messages),
     temperature |-> TEMPERATURE, api_key |-> key]

Raise(msg) == [tag |-> "raise", msg |-> msg]
Return(content) == [tag |-> "return", content |-> content, model_name |-> MODEL_NAME]

\* lines 54-61: the choices path; None when it does not reach a content
ChoicesContent(output) ==
    IF output.isDict /\ output.choices # Absent
    THEN LET choices == output.choices
         IN  IF choices.tag = "list" /\ Len(choices.items) > 0
             THEN LET first_choice == choices.items[1]
                  IN  IF first_choice.tag = "dict" /\ first_choice.message # Absent
                      THEN LET message_dict == first_choice.message
                           IN  IF message_dict.tag = "dict" /\ message_dict.content # Absent
                               THEN message_dict.content
                               ELSE None
                      ELSE None
             ELSE None
    ELSE None

\* lines 51-61: the extracted content, None when nothing was extracted
ExtractContent_ChoicesFirst(output) ==
    IF ChoicesContent(output) # None THEN ChoicesContent(output)
    ELSE IF output.text # Absent /\ Truthy(output.text) THEN output.text
    ELSE None
ExtractContent(output) ==
    IF output.text # Absent /\ Truthy(output.text) THEN output.text
    ELSE ChoicesContent(output)

\* lines 38-70: the body of the try block after Generation.call
TryBody(r) ==
    IF r.tag = "raise" THEN r
    ELSE IF r = None THEN Raise(DIAG_NONE)
    ELSE IF r.status_code # HTTP_OK
    THEN Raise(DiagStatus(r.status_code,
                          IF r.message = Absent THEN UNKNOWN_ERROR ELSE r.message.s))
    ELSE IF r.output = None THEN Raise(DIAG_NO_OUTPUT)
    ELSE LET content == ExtractContent(r.output)
         IN  IF content = None THEN Raise(DIAG_NO_TEXT) ELSE Return(content.s)

\* lines 29-73: the outcome of _generate for what Generation.call produced
_generate_Unwrapped(r) == TryBody(r)
_generate(r) ==
    LET res == TryBody(r)
    IN  IF res.tag = "raise" THEN Raise(ENVELOPE \o res.msg) ELSE res

-----------------------------------------------------------------------------
(* _get_general_info *)

\* the options of the multiselect (line 88): 电机, 显示屏, 串口通信, 外部中断, 定时器
M_MOTOR == "dianji"
M_DISPLAY == "xianshiping"
M_SERIAL == "chuankou tongxin"
M_INTERRUPT == "waibu zhongduan"
M_TIMER == "dingshiqi"
ModuleOptions == {M_MOTOR, M_DISPLAY, M_SERIAL, M_INTERRUPT, M_TIMER}

\* "电机模块使用简单转子马达，只需两个信号线控制电压方向，无需使能控制。电机通过pwm调速。"
MOTOR_NOTE == <<"dianji mokuai shiyong jiandan zhuanzi mada, zhi xu liang ge xinhaoxian kongzhi dianya fangxiang, wuxu shineng kongzhi">>
\* "显示屏要求：..."
DISPLAY_NOTE == <<"xianshiping yaoqiu: chushi jiemian, zhu jiemian">>
\* "定时器配置：..."
TIMER_NOTE == <<"dingshiqi peizhi: TIM3 1.5 miao dingshi, TIM2 jishu">>
\* "外部中断：..."
INTERRUPT_NOTE == <<"waibu zhongduan: KEY1 anjian shiyong waibu zhongduan chufa zanting">>

\* `x in modules`, for a list
InList(x, list) == x \in Range(list)

_get_general_info_DisplayAlways(ms, th, fn) ==
    [modules_desc |-> Join(ms),
     motor_note |-> IF InList(M_MOTOR, ms) THEN MOTOR_NOTE ELSE << >>,
     display_note |-> DISPLAY_NOTE,
     timer_note |-> IF InList(M_TIMER, ms) THEN TIMER_NOTE ELSE << >>,
     interrupt_note |-> IF InList(M_INTERRUPT, ms) THEN INTERRUPT_NOTE ELSE << >>]
_get_general_info(ms, th, fn) ==
    [modules_desc |-> Join(ms),
     motor_note |-> IF InList(M_MOTOR, ms) THEN MOTOR_NOTE ELSE << >>,
     display_note |-> IF InList(M_DISPLAY, ms) THEN DISPLAY_NOTE ELSE << >>,
     timer_note |-> IF InList(M_TIMER, ms) THEN TIMER_NOTE ELSE << >>,
     interrupt_note |-> IF InList(M_INTERRUPT, ms) THEN INTERRUPT_NOTE ELSE << >>]

-----------------------------------------------------------------------------
(* _get_mode_description *)

\* The keyword lists of the eight branches, in the order the branches are tested.
\* 流水线, 传送带, 生产线, 装配线
KW_LINE == <<<<"u6D41", "u6C34", "u7EBF">>, <<"u4F20", "u9001", "u5E26">>, <<"u751F", "u4EA7", "u7EBF">>, <<"u88C5", "u914D", "u7EBF">>>>
\* 洗衣机, 搅拌机, 旋转设备, 脱水机
KW_ROTATING == <<<<"u6D17", "u8863", "u673A">>, <<"u6405", "u62CC", "u673A">>, <<"u65CB", "u8F6C", "u8BBE", "u5907">>, <<"u8131", "u6C34", "u673A">>>>
\* 票, 售票, 购票, 验票, 选座位
KW_TICKET == <<<<"u7968">>, <<"u552E", "u7968">>, <<"u8D2D", "u7968">>, <<"u9A8C", "u7968">>, <<"u9009", "u5EA7", "u4F4D">>>>
\* 电梯, 升降机, 垂直运输
KW_ELEVATOR == <<<<"u7535", "u68AF">>, <<"u5347", "u964D", "u673A">>, <<"u5782", "u76F4", "u8FD0", "u8F93">>>>
\* 家居, 智能家居, 家庭自动化
KW_HOME == <<<<"u5BB6", "u5C45">>, <<"u667A", "u80FD", "u5BB6", "u5C45">>, <<"u5BB6", "u5EAD", "u81EA", "u52A8", "u5316">>>>
\* the agriculture list with 灌溉 added
KW_AGRICULTURE_WithIrrigation == <<<<"u519C", "u4E1A">>, <<"u6E29", "u5BA4">>, <<"u5927", "u68DA">>, <<"u79CD", "u690D">>, <<"u704C", "u6E89">>>>
\* 农业, 温室, 大棚, 种植
KW_AGRICULTURE == <<<<"u519C", "u4E1A">>, <<"u6E29", "u5BA4">>, <<"u5927", "u68DA">>, <<"u79CD", "u690D">>>>
\* 停车场, 车库, 车位管理
KW_PARKING == <<<<"u505C", "u8F66", "u573A">>, <<"u8F66", "u5E93">>, <<"u8F66", "u4F4D", "u7BA1", "u7406">>>>
\* 照明, 灯光, 路灯
KW_LIGHTING == <<<<"u7167", "u660E">>, <<"u706F", "u5149">>, <<"u8DEF", "u706F">>>>

\* A returned pair (mode_desc, work_control): mode_desc is the sequence of
\* its numbered mode blocks, each block one piece named by its heading;
\* work_control is the "3. **工作控制**" heading and its bullets.
Template(category, headings) ==
    [mode_desc |-> headings,
     work_control |-> <<"3. **gongzuo kongzhi**", category>>]

\* 手动控制模式, 自动调节模式
T_LINE == Template("line", <<"1. **shoudong kongzhi moshi**", "2. **zidong tiaojie moshi**">>)
\* 低速模式, 标准模式, 高速模式
T_ROTATING == Template("rotating", <<"1. **disu moshi**", "2. **biaozhun moshi**", "3. **gaosu moshi**">>)
\* 售票模式, 查询模式, 维护模式
T_TICKET == Template("ticket", <<"1. **shoupiao moshi**", "2. **chaxun moshi**", "3. **weihu moshi**">>)
\* 标准运行模式, 节能运行模式, 高峰运行模式, 维护模式
T_ELEVATOR == Template("elevator", <<"1. **biaozhun yunxing moshi**", "2. **jieneng yunxing moshi**", "3. **gaofeng yunxing moshi**", "4. **weihu moshi**">>)
\* 居家模式, 离家模式, 睡眠模式, 娱乐模式
T_HOME == Template("home", <<"1. **jujia moshi**", "2. **lijia moshi**", "3. **shuimian moshi**", "4. **yule moshi**">>)
\* 自动灌溉模式, 通风模式, 补光模式, 监控模式
T_AGRICULTURE == Template("agriculture", <<"1. **zidong guangai moshi**", "2. **tongfeng moshi**", "3. **buguang moshi**", "4. **jiankong moshi**">>)
\* 入场模式, 出场模式, 寻车模式, 维护模式
T_PARKING == Template("parking", <<"1. **ruchang moshi**", "2. **chuchang moshi**", "3. **xunche moshi**", "4. **weihu moshi**">>)
\* 标准照明模式, 节能模式, 场景模式, 安全模式
T_LIGHTING == Template("lighting", <<"1. **biaozhun zhaoming moshi**", "2. **jieneng moshi**", "3. **changjing moshi**", "4. **anquan moshi**">>)
\* 手动模式, 自动模式 (the else branch)
T_DEFAULT == Template("default", <<"1. **shoudong moshi**", "2. **zidong moshi**">>)

\* any(kw in theme for kw in kws)
AnyKw(kws, th) == \E i \in 1..Len(kws) : Contains(th, kws[i])

_get_mode_description_LightingFirst(th) ==
    IF AnyKw(KW_LINE, th) THEN T_LINE
    ELSE IF AnyKw(KW_ROTATING, th) THEN T_ROTATING
    ELSE IF AnyKw(KW_TICKET, th) THEN T_TICKET
    ELSE IF AnyKw(KW_ELEVATOR, th) THEN T_ELEVATOR
    ELSE IF AnyKw(KW_LIGHTING, th) THEN T_LIGHTING
    ELSE IF AnyKw(KW_HOME, th) THEN T_HOME
    ELSE IF AnyKw(KW_AGRICULTURE, th) THEN T_AGRICULTURE
    ELSE IF AnyKw(KW_PARKING, th) THEN T_PARKING
    ELSE T_DEFAULT
_get_mode_description_WithIrrigation(th) ==
    IF AnyKw(KW_LINE, th) THEN T_LINE
    ELSE IF AnyKw(KW_ROTATING, th) THEN T_ROTATING
    ELSE IF AnyKw(KW_TICKET, th) THEN T_TICKET
    ELSE IF AnyKw(KW_ELEVATOR, th) THEN T_ELEVATOR
    ELSE IF AnyKw(KW_HOME, th) THEN T_HOME
    ELSE IF AnyKw(KW_AGRICULTURE_WithIrrigation, th) THEN T_AGRICULTURE
    ELSE IF AnyKw(KW_PARKING, th) THEN T_PARKING
    ELSE IF AnyKw(KW_LIGHTING, th) THEN T_LIGHTING
    ELSE T_DEFAULT
_get_mode_description(th) ==
    IF AnyKw(KW_LINE, th) THEN T_LINE
    ELSE IF AnyKw(KW_ROTATING, th) THEN T_ROTATING
    ELSE IF AnyKw(KW_TICKET, th) THEN T_TICKET
    ELSE IF AnyKw(KW_ELEVATOR, th) THEN T_ELEVATOR
    ELSE IF AnyKw(KW_HOME, th) THEN T_HOME
    ELSE IF AnyKw(KW_AGRICULTURE, th) THEN T_AGRICULTURE
    ELSE IF AnyKw(KW_PARKING, th) THEN T_PARKING
    ELSE IF AnyKw(KW_LIGHTING, th) THEN T_LIGHTING
    ELSE T_DEFAULT

NoMode == [mode_desc |-> << >>, work_control |-> << >>]

-----------------------------------------------------------------------------
(* create_prompt *)

\* the fixed text of the f-string, one piece per stretch between two fields
P_ROLE == <<"ni shi yi wei qianrushi xitong kecheng sheji chuti zhuanjia ... jiyu">>
P_OF == <<"de">>
P_BRIEF == <<"xiangmu renwushu.">>
P_THEME == <<"**xiangmu zhuti:**">>
P_FUNCTION == <<"**zhuyao gongneng:**">>
P_SPECIAL == <<"**teshu yaoqiu:**">>
P_STRUCTURE == <<"**qing yange anzhao yixia jiegou shengcheng neirong:**", "##### 1. renwu timu", "yi zhong zhineng">>
P_KEYS == <<"kongzhi xitong", "##### 2. kongzhi gongneng", "##### 3. anjian gongneng",
            "| KEY0 |", "| KEY1 |", "| KEY_UP |", "##### 4. gongzuo moshi">>
P_REQUIREMENTS == <<"##### 5. juti kongzhi yaoqiu", "1. **chushi jiemian xianshi** xitong mingcheng">>
P_SWITCH == <<"2. **moshi qiehuan kongzhi**">>
P_TAIL == <<"4. **zanting kongzhi**", "##### 6. yingjian yinjiao fenpei", "**sheji yueshu:**",
            "1. zhi shiyong KEY0/KEY1/KEY_UP he LED0/LED1",
            "2. yingjian yinjiao fenpei bu baohan xianshiping xiangguan yinjiao",
            "3. bu baohan dianyuan", "4. anjian gongneng mingque wu chongtu">>

create_prompt(ms, th, fn) ==
    LET gen_info == _get_general_info(ms, th, fn)
        md == _get_mode_description(th)
    IN  P_ROLE \o gen_info.modules_desc \o P_OF \o th \o P_BRIEF
            \o P_THEME \o th
            \o P_FUNCTION \o fn
            \o P_SPECIAL \o gen_info.motor_note \o gen_info.display_note
                         \o gen_info.timer_note \o gen_info.interrupt_note
            \o P_STRUCTURE \o th \o P_KEYS
            \o md.mode_desc
            \o P_REQUIREMENTS \o th \o P_SWITCH
            \o md.work_control
            \o P_TAIL

\* the part of a prompt between "**特殊要求：**" and the structure instructions
RECURSIVE IndexOf(_, _, _)
IndexOf(s, x, i) ==
    IF i > Len(s) THEN 0 ELSE IF s[i] = x THEN i ELSE IndexOf(s, x, i + 1)
SpecialBlock(p) ==
    SubSeq(p, IndexOf(p, P_SPECIAL[1], 1) + 1, IndexOf(p, P_STRUCTURE[1], 1) - 1)

-----------------------------------------------------------------------------
(* generate_project *)

\* lines 488-491
ProjectMessages(p) ==
    <<[type |-> "system", content |-> PERSONA], [type |-> "human", content |-> p]>>

\* lines 492-495: what generate_project returns for what Generation.call produced
GenerateProjectResult(r) ==
    LET res == _generate(r)
    IN  IF res.tag = "raise"
        THEN [outcome |-> "failed", content |-> FAIL_PREFIX \o <<" ">> \o res.msg]
        ELSE [outcome |-> "success", content |-> res.content]

\* lines 482-492: generate_project(p, k) up to the point where it returns
\* the validation string or blocks in Generation.call
generate_project_begin_NoKeyCheck(p, k) ==
    /\ pc' = "calling"
    /\ request' = GenerationCall(ProjectMessages(p), k)
    /\ calls' = 1
    /\ response' = Unset
    /\ outcome' = "none"
    /\ project_content' = << >>
generate_project_begin(p, k) ==
    IF k = << >>
    THEN /\ pc' = "idle"
         /\ request' = Unset
         /\ calls' = 0
         /\ response' = Unset
         /\ outcome' = "validation"
         /\ project_content' = ERR_NO_KEY
    ELSE /\ pc' = "calling"
         /\ request' = GenerationCall(ProjectMessages(p), k)
         /\ calls' = 1
         /\ response' = Unset
         /\ outcome' = "none"
         /\ project_content' = << >>

\* lines 492-495: Generation.call produced r; generate_project returns
generate_project_end_Retry(r) ==
    /\ pc = "calling"
    /\ response' = r
    /\ IF GenerateProjectResult(r).outcome = "failed" /\ calls < 2
       THEN /\ pc' = "calling"
            /\ calls' = calls + 1
            /\ UNCHANGED <<outcome, project_content>>
       ELSE /\ pc' = "idle"
            /\ calls' = calls
            /\ outcome' = GenerateProjectResult(r).outcome
            /\ project_content' = GenerateProjectResult(r).content
    /\ UNCHANGED <<prompt, request>>
generate_project_end(r) ==
    /\ pc = "calling"
    /\ response' = r
    /\ pc' = "idle"
    /\ outcome' = GenerateProjectResult(r).outcome
    /\ project_content' = GenerateProjectResult(r).content
    /\ UNCHANGED <<prompt, request, calls>>

-----------------------------------------------------------------------------
(* The Streamlit script *)

\* 智能流水线 and 自动启停, the defaults of the theme and function boxes
DefaultTheme == <<"u667A", "u80FD", "u6D41", "u6C34", "u7EBF">>
DefaultFunction == <<"zidong qiting">>
\* 智能灌溉
IrrigationTheme == <<"u667A", "u80FD", "u704C", "u6E89">>

ApiKeys == {<< >>, <<"sk-key">>}
MainThemes == {DefaultTheme, IrrigationTheme}

\* lines 92-93
SidebarError(ms) == IF ms = << >> THEN MSG_NO_MODULE ELSE << >>

\* line 502: disabled=not modules
ButtonDisabled_Never(ms) == FALSE
ButtonDisabled(ms) == ms = << >>

\* what a run of the script has rendered before the button's block
BlankUi(ms) ==
    [sidebar_error |-> SidebarError(ms), main_error |-> << >>,
     status_kind |-> "none", status_text |-> << >>,
     subheader |-> << >>, markdown |-> << >>]

\* lines 520-521: "正在生成设计方案..."
GeneratingUi(ms) ==
    [BlankUi(ms) EXCEPT !.status_kind = "text",
                        !.status_text = <<"zhengzai shengcheng sheji fangan...">>]

\* lines 525-532: the caller's prefix test on what generate_project returned
HandlerTail(ms, th, content) ==
    IF StartsWith(content, ERR_PREFIX) \/ StartsWith(content, FAIL_PREFIX)
    THEN [BlankUi(ms) EXCEPT !.status_kind = "error", !.status_text = content]
    ELSE [BlankUi(ms) EXCEPT
             !.status_kind = "success",
             !.status_text = th \o <<"xiangmu sheji fangan shengcheng chenggong!">>,
             !.subheader = th \o <<"xiangmu sheji fangan">>,
             !.markdown = content]

\* a run of the script in which the button's block is not entered
NoGeneration ==
    /\ pc' = "idle"
    /\ prompt' = << >>
    /\ request' = Unset
    /\ calls' = 0
    /\ response' = Unset
    /\ outcome' = "none"
    /\ project_content' = << >>
    /\ mode' = NoMode

Remove(list, x) == SelectSeq(list, LAMBDA y : y # x)

\* the user edits the credential box: the script reruns, the button is not pressed
SetApiKey(k) ==
    /\ pc = "idle"
    /\ k # api_key
    /\ api_key' = k
    /\ ui' = BlankUi(modules)
    /\ NoGeneration
    /\ UNCHANGED <<modules, theme, function>>

\* the user selects or deselects a module of the multiselect
ToggleModule(m) ==
    /\ pc = "idle"
    /\ modules' = IF InList(m, modules) THEN Remove(modules, m) ELSE Append(modules, m)
    /\ ui' = BlankUi(modules')
    /\ NoGeneration
    /\ UNCHANGED <<api_key, theme, function>>

\* the user edits the theme box
SetTheme(t) ==
    /\ pc = "idle"
    /\ t # theme
    /\ theme' = t
    /\ ui' = BlankUi(modules)
    /\ NoGeneration
    /\ UNCHANGED <<api_key, modules, function>>

\* lines 502-522: the user presses "生成设计方案"; the script runs up to the
\* end of the button's block or up to Generation.call
ClickGenerate ==
    /\ pc = "idle"
    /\ ~ButtonDisabled(modules)
    /\ IF api_key = << >>
       THEN /\ ui' = [BlankUi(modules) EXCEPT !.main_error = MSG_NO_KEY]
            /\ NoGeneration
       ELSE IF modules = << >>
       THEN /\ ui' = [BlankUi(modules) EXCEPT !.main_error = MSG_NO_MODULE]
            /\ NoGeneration
       ELSE /\ prompt' = create_prompt(modules, theme, function)
            /\ mode' = _get_mode_description(theme)
            /\ generate_project_begin(prompt', api_key)
            /\ ui' = IF pc' = "calling"
                     THEN GeneratingUi(modules)
                     ELSE HandlerTail(modules, theme, project_content')
    /\ UNCHANGED <<api_key, modules, theme, function>>

\* lines 522-532: Generation.call comes back, generate_project returns and the
\* button's block renders the result
BackendRespond ==
    /\ \E r \in Responses : generate_project_end(r)
    /\ ui' = IF pc' = "calling" THEN ui ELSE HandlerTail(modules, theme, project_content')
    /\ UNCHANGED <<api_key, modules, theme, function, mode>>

Init ==
    /\ api_key = << >>
    /\ modules = <<M_DISPLAY>>
    /\ theme = DefaultTheme
    /\ function = DefaultFunction
    /\ pc = "idle"
    /\ prompt = << >>
    /\ request = Unset
    /\ calls = 0
    /\ response = Unset
    /\ outcome = "none"
    /\ project_content = << >>
    /\ ui = BlankUi(<<M_DISPLAY>>)
    /\ mode = NoMode

Next ==
    \/ \E k \in ApiKeys : SetApiKey(k)
    \/ \E m \in ModuleOptions : ToggleModule(m)
    \/ \E t \in MainThemes : SetTheme(t)
    \/ ClickGenerate
    \/ BackendRespond

Spec == Init /\ [][Next]_vars

-----------------------------------------------------------------------------
(* generate_project called on its own, with any prompt and credential *)

DirectPrompts == {<< >>, <<"hello">>, create_prompt(<<M_DISPLAY>>, DefaultTheme, DefaultFunction)}

DirectCall(p, k) ==
    /\ pc = "idle"
    /\ api_key' = k
    /\ prompt' = p
    /\ generate_project_begin(p, k)
    /\ UNCHANGED <<modules, theme, function, ui, mode>>

DirectReturn ==
    /\ \E r \in Responses : generate_project_end(r)
    /\ UNCHANGED <<api_key, modules, theme, function, ui, mode>>

NextGen ==
    \/ \E p \in DirectPrompts, k \in ApiKeys : DirectCall(p, k)
    \/ DirectReturn

SpecGen == Init /\ [][NextGen]_vars

-----------------------------------------------------------------------------
(* _get_mode_description applied to themes typed into the theme box *)

\* 家 居 灯 光 票 农 业 灌 溉
ThemeChars == Range(<<"u5BB6", "u5C45", "u706F", "u5149", "u7968", "u519C", "u4E1A", "u704C", "u6E89">>)

FirstKeywords == <<KW_LINE[1], KW_ROTATING[1], KW_TICKET[2], KW_ELEVATOR[1],
                   KW_HOME[1], KW_AGRICULTURE[1], KW_PARKING[1], KW_LIGHTING[1]>>
AllKeywords ==
    Range(KW_LINE) \cup Range(KW_ROTATING) \cup Range(KW_TICKET) \cup Range(KW_ELEVATOR)
        \cup Range(KW_HOME) \cup Range(KW_AGRICULTURE) \cup Range(KW_PARKING)
        \cup Range(KW_LIGHTING)
\* whole themes pasted into the box: the defaults, every keyword, and every
\* pair of keywords of two categories in both orders
SampleThemes ==
    {<< >>, DefaultTheme, IrrigationTheme} \cup AllKeywords
        \cup {FirstKeywords[i] \o FirstKeywords[j] : i, j \in 1..Len(FirstKeywords)}

TypeThemeChar(c) ==
    /\ Len(theme) < MaxThemeLen
    /\ theme' = Append(theme, c)
    /\ mode' = NoMode
    /\ UNCHANGED <<api_key, modules, function, pc, prompt, request, calls,
                   response, outcome, project_content, ui>>

PasteTheme(t) ==
    /\ theme' = t
    /\ mode' = NoMode
    /\ UNCHANGED <<api_key, modules, function, pc, prompt, request, calls,
                   response, outcome, project_content, ui>>

SelectMode ==
    /\ mode = NoMode
    /\ mode' = _get_mode_description(theme)
    /\ UNCHANGED <<api_key, modules, theme, function, pc, prompt, request, calls,
                   response, outcome, project_content, ui>>

NextMode ==
    \/ \E c \in ThemeChars : TypeThemeChar(c)
    \/ \E t \in SampleThemes : PasteTheme(t)
    \/ SelectMode

SpecMode == Init /\ [][NextMode]_vars

-----------------------------------------------------------------------------
(* Properties *)

\* generate_project has returned (the run holds its result)
Returned == outcome # "none"

\* the backend's reply is a response object with status 200 and an output
GoodResponse ==
    response.tag = "resp" /\ response.status_code = HTTP_OK /\ response.output # None

\* the failure string generate_project builds around a diagnostic
Failure(diag) == FAIL_PREFIX \o <<" ">> \o ENVELOPE \o diag

\* C1: when the credential is empty, generate_project returns the literal
\* "错误: 请先输入API密钥" and Generation.call is not invoked in that request:
\* no request is built, no call is counted, nothing is outstanding.
C1_EmptyKeyValidation ==
    api_key = << >> =>
        /\ pc = "idle"
        /\ calls = 0
        /\ request = Unset
        /\ response = Unset
        /\ Returned => (outcome = "validation" /\ project_content = ERR_NO_KEY)

C1_Witness ==
    /\ api_key = << >>
    /\ outcome = "validation"
    /\ project_content = ERR_NO_KEY
    /\ prompt # << >>
    /\ calls = 0

\* a validation string that carries the "错误:" prefix has been surfaced
PrefixedValidationSurfaced ==
    \/ StartsWith(project_content, ERR_PREFIX)
    \/ StartsWith(ui.sidebar_error, ERR_PREFIX)
    \/ StartsWith(ui.main_error, ERR_PREFIX)
    \/ StartsWith(ui.status_text, ERR_PREFIX)

\* C2 as stated: when the module set is empty, a "select at least one module"
\* validation string carrying the "错误:" prefix is returned and the backend
\* is never contacted.
C2_Original ==
    modules = << >> =>
        /\ PrefixedValidationSurfaced
        /\ pc = "idle"
        /\ calls = 0

\* C2 as amended: when the module set is empty the generate button is
\* disabled, so its block never runs; the script shows the message
\* "请至少选择一个项目模块", without the "错误:" prefix, in the sidebar;
\* generate_project is not called and the backend is never contacted.
C2_Amended ==
    modules = << >> =>
        /\ ui.sidebar_error = MSG_NO_MODULE
        /\ ~PrefixedValidationSurfaced
        /\ ui.main_error = << >>
        /\ ui.status_kind = "none"
        /\ outcome = "none"
        /\ pc = "idle"
        /\ calls = 0
        /\ request = Unset

C2_Witness ==
    /\ modules = << >>
    /\ api_key # << >>
    /\ ui.sidebar_error = MSG_NO_MODULE

\* the direct text field is present and non-empty
HasText(o) == o.text.tag = "str" /\ Len(o.text.s) > 0

\* the output has the choices shape: a dict whose choices is a non-empty list
\* whose first item is a dict with a dict message that holds a content
HasChoicesShape(o) ==
    /\ o.isDict
    /\ o.choices.tag = "list"
    /\ o.choices.items # << >>
    /\ o.choices.items[1].tag = "dict"
    /\ o.choices.items[1].message.tag = "dict"
    /\ o.choices.items[1].message.content.tag = "str"

\* C3: for a response with status 200 and an output, the extracted text is
\* the direct text field when it is present and non-empty; otherwise it is
\* choices[0].message.content when the output has the choices shape (also
\* when a text field is present but empty); otherwise the adapter fails
\* with "无法从 API 响应中提取生成的文本内容" and returns no result.
C3_ExtractionPriority ==
    (Returned /\ GoodResponse) =>
        LET o == response.output
        IN  IF HasText(o)
            THEN outcome = "success" /\ project_content = o.text.s
            ELSE IF HasChoicesShape(o)
            THEN /\ outcome = "success"
                 /\ project_content = o.choices.items[1].message.content.s
            ELSE outcome = "failed" /\ project_content = Failure(DIAG_NO_TEXT)

C3_Witness ==
    /\ Returned
    /\ GoodResponse
    /\ response.output.text = Str(<< >>)
    /\ HasChoicesShape(response.output)
    /\ project_content = <<"fangan">>

\* C4: whenever the adapter succeeds, the generated text is non-empty.
C4_SuccessNonEmpty == outcome = "success" => project_content # << >>

\* the four failure conditions of the adapter
FailureCondition(r) ==
    IF r = None THEN "no response"
    ELSE IF r.tag # "resp" THEN "other"
    ELSE IF r.status_code # HTTP_OK THEN "status"
    ELSE IF r.output = None THEN "no output"
    ELSE IF ~HasText(r.output) /\ ~HasChoicesShape(r.output) THEN "no text"
    ELSE "other"
FailureConditions == {"no response", "status", "no output", "no text"}

\* the diagnostic of a failure condition
Diagnostic(r) ==
    CASE FailureCondition(r) = "no response" -> DIAG_NONE
      [] FailureCondition(r) = "status" ->
            <<"API Error (", ToString(r.status_code), "): ">>
                \o (IF r.message.tag = "str" THEN r.message.s ELSE UNKNOWN_ERROR)
      [] FailureCondition(r) = "no output" -> DIAG_NO_OUTPUT
      [] FailureCondition(r) = "no text" -> DIAG_NO_TEXT

\* the number of times piece x occurs in s
Occurrences(s, x) == Cardinality({i \in 1..Len(s) : s[i] = x})

\* C5: under each of the four backend failure conditions generate_project
\* returns (raises nothing) the string "生成失败: " followed by the envelope
\* "调用 Qwen 模型时发生错误: ", once, and the condition's own diagnostic;
\* the strings of two different conditions differ.
C5_FailureStrings ==
    (Returned /\ FailureCondition(response) \in FailureConditions) =>
        /\ pc = "idle"
        /\ outcome = "failed"
        /\ StartsWith(project_content, FAIL_PREFIX)
        /\ Occurrences(project_content, ENVELOPE[1]) = 1
        /\ project_content = Failure(Diagnostic(response))
        /\ \A r \in Responses :
              (/\ FailureCondition(r) \in FailureConditions
               /\ FailureCondition(r) # FailureCondition(response))
                  => GenerateProjectResult(r).content # project_content

C5_Witness ==
    /\ Returned
    /\ FailureCondition(response) = "status"
    /\ response.message.tag = "str"
    /\ project_content = Failure(<<"API Error (", "401", "): ">> \o response.message.s)

\* the caller's prefix test of lines 525
LooksLikeError(s) == StartsWith(s, ERR_PREFIX) \/ StartsWith(s, FAIL_PREFIX)

\* C6: the returned string begins with "错误:" or "生成失败:" exactly when
\* validation or the backend call failed, and the caller's prefix test never
\* shows a successful generation as an error.
C6_PrefixIffFailure ==
    Returned =>
        /\ LooksLikeError(project_content) <=> outcome \in {"validation", "failed"}
        /\ outcome = "success" => ui.status_kind = "success"

\* C7: every run of the button's block calls the backend at most once; a
\* run with a credential and a module calls it exactly once, whether the
\* call succeeds or fails; the reply ends the run without another call.
C7_OneCallPerAction ==
    [][/\ calls' \in {0, 1}
       /\ pc' = "calling" => (pc = "idle" /\ calls' = 1 /\ api_key # << >> /\ modules # << >>)
       /\ pc = "calling" =>
             (pc' = "idle" /\ calls' = 1 /\ outcome' \in {"failed", "success"}
              /\ ui'.status_kind \in {"error", "success"})
       /\ outcome' \in {"failed", "success"} => calls' = 1
       \* a step from idle that edits no widget is a press of the button
       /\ (/\ pc = "idle"
           /\ <<api_key, modules, theme, function>>' = <<api_key, modules, theme, function>>
           /\ api_key # << >>
           /\ modules # << >>)
              => (pc' = "calling" /\ calls' = 1)
      ]_vars

C7_Witness ==
    /\ outcome = "failed"
    /\ pc = "idle"
    /\ calls = 1
    /\ ui.status_kind = "error"

\* the categories in the order the claim lists them
CategoryKeywords == <<KW_LINE, KW_ROTATING, KW_TICKET, KW_ELEVATOR,
                      KW_HOME, KW_AGRICULTURE, KW_PARKING, KW_LIGHTING>>
CategoryTemplates == <<T_LINE, T_ROTATING, T_TICKET, T_ELEVATOR,
                       T_HOME, T_AGRICULTURE, T_PARKING, T_LIGHTING>>
\* the categories of which some keyword is a substring of th
Matching(th) ==
    {i \in 1..Len(CategoryKeywords) :
        \E kw \in Range(CategoryKeywords[i]) : Contains(th, kw)}
Least(S) == CHOOSE i \in S : \A j \in S : i <= j

\* C8: _get_mode_description returns, for every theme, the template of the
\* first category in the order line, rotating, ticketing, elevator,
\* smart-home, agriculture, parking, lighting of which a keyword is a
\* substring of the theme; with no such category it returns the fallback,
\* which has exactly two modes; the template is never empty.
C8_FirstMatchOrFallback ==
    mode # NoMode =>
        /\ mode = IF Matching(theme) = {} THEN T_DEFAULT
                  ELSE CategoryTemplates[Least(Matching(theme))]
        /\ mode.mode_desc # << >>
        /\ mode.work_control # << >>
        /\ Matching(theme) = {} => Len(mode.mode_desc) = 2

C8_Witness ==
    /\ Matching(theme) = {5, 8}
    /\ mode = T_HOME

\* 灌溉
IRRIGATION == <<"u704C", "u6E89">>

\* C9 as stated: a theme that contains 灌溉 and no keyword of an earlier
\* category gets the agriculture template.
C9_Original ==
    (/\ mode # NoMode
     /\ Contains(theme, IRRIGATION)
     /\ \A i \in Matching(theme) : i >= 6)
        => mode = T_AGRICULTURE

\* C9 as amended: 灌溉 is not a keyword. A theme that contains 灌溉 gets the
\* agriculture template only when it also contains 农业, 温室, 大棚 or 种植
\* (and no keyword of an earlier category); a theme that contains 灌溉 and
\* no keyword of any category, such as 智能灌溉, gets the generic fallback.
C9_Amended ==
    (mode # NoMode /\ Contains(theme, IRRIGATION)) =>
        /\ mode = T_AGRICULTURE <=>
              (/\ \E kw \in Range(KW_AGRICULTURE) : Contains(theme, kw)
               /\ \A i \in Matching(theme) : i >= 6)
        /\ Matching(theme) = {} => mode = T_DEFAULT

C9_Witness ==
    /\ theme = IrrigationTheme
    /\ mode = T_DEFAULT

\* the notes of a prompt
NotesIn(p) == Range(SpecialBlock(p))

\* C10 as stated: the prompt holds one note for each selected module of the
\* five options, so selecting 串口通信 adds a note.
C10_Original ==
    prompt # << >> => Cardinality(NotesIn(prompt)) = Cardinality(Range(modules))

\* C10 as amended: the prompt holds four conditional notes (motor, display,
\* timer, external interrupt), each present exactly when its module is
\* selected and blank otherwise, independently of the other modules; there
\* is no external-communication note: selecting 串口通信 changes no note.
C10_Amended ==
    prompt # << >> =>
        /\ MOTOR_NOTE[1] \in NotesIn(prompt) <=> InList(M_MOTOR, modules)
        /\ DISPLAY_NOTE[1] \in NotesIn(prompt) <=> InList(M_DISPLAY, modules)
        /\ TIMER_NOTE[1] \in NotesIn(prompt) <=> InList(M_TIMER, modules)
        /\ INTERRUPT_NOTE[1] \in NotesIn(prompt) <=> InList(M_INTERRUPT, modules)
        /\ NotesIn(prompt) \subseteq
              {MOTOR_NOTE[1], DISPLAY_NOTE[1], TIMER_NOTE[1], INTERRUPT_NOTE[1]}

C10_Witness ==
    /\ prompt # << >>
    /\ Range(modules) = {M_SERIAL, M_MOTOR}
    /\ NotesIn(prompt) = {MOTOR_NOTE[1]}

=============================================================================
